---- MODULE Spec2Model ----
(***************************************************************************)
(* A model of nextpy_trivia.py: the per-question interaction loop          *)
(* (run_single_question), the main loop (main) and the scorer (end_game).  *)
(*                                                                         *)
(* Text is modelled as a sequence of one-character strings, so that        *)
(* str.strip(), str.casefold() and the substring operator `in` are         *)
(* computed rather than assumed.                                           *)
(***************************************************************************)
EXTENDS Integers, Sequences, FiniteSets, TLC

VARIABLES
    file_found, \* whether questions.json exists
    questions,  \* main: questions_data (the file's list, then shuffled)
    i,          \* main: number of questions presented so far (q_num of the current one)
    pc,         \* control position of the program
    attempt,    \* run_single_question: attempt
    clue_used,  \* run_single_question: clue_used
    line,       \* the raw line the last input() call returned
    result,     \* the value run_single_question returned
    results,    \* main: results
    output,     \* the score results end_game has printed
    shown,      \* the messages printed by the last step
    cues,       \* the safe_sound calls made by the last step
    hints,      \* hint requests handled in the current session
    wrongs,     \* wrong answers handled in the current session
    empties     \* empty lines read at the current prompt

vars == <<file_found, questions, i, pc, attempt, clue_used, line, result, results,
          output, shown, cues, hints, wrongs, empties>>

(***************************************************************************)
(* Program constants and model bounds                                      *)
(***************************************************************************)
ATTEMPTS == 5

\* Longest question list the question file holds.
MaxQuestions == 2
\* Most empty lines entered in a row at one prompt.
MaxEmpties == 2
\* Longest outcome sequence handed to the scorer on its own.
MaxOutcomes == 3
\* Largest outcome handed to the scorer on its own.
MaxOutcome == 6
\* Most calls of the scorer on one outcome sequence.
MaxCalls == 2
\* Longest question list of the runs checked for termination.
MaxLiveQuestions == 1

NoLine == <<"<no line>">>
NoResult == -1

(***************************************************************************)
(* Text: str.strip, str.casefold, the `in` operator                        *)
(***************************************************************************)
UpperCase == <<"A","B","C","D","E","F","G","H","I","J","K","L","M",
               "N","O","P","Q","R","S","T","U","V","W","X","Y","Z">>
LowerCase == <<"a","b","c","d","e","f","g","h","i","j","k","l","m",
               "n","o","p","q","r","s","t","u","v","w","x","y","z">>

Whitespace == {" ", "\t"}

\* str.casefold on one character: upper case to lower case, sharp s to "ss".
casefold_char(c) ==
    IF \E k \in 1..Len(UpperCase) : UpperCase[k] = c
    THEN <<LowerCase[CHOOSE k \in 1..Len(UpperCase) : UpperCase[k] = c]>>
    ELSE IF c = "ß" THEN <<"s", "s">>
    ELSE <<c>>

RECURSIVE casefold(_)
casefold(s) ==
    IF s = <<>> THEN <<>> ELSE casefold_char(Head(s)) \o casefold(Tail(s))

RECURSIVE lstrip(_)
lstrip(s) ==
    IF s # <<>> /\ Head(s) \in Whitespace THEN lstrip(Tail(s)) ELSE s

RECURSIVE rstrip(_)
rstrip(s) ==
    IF s # <<>> /\ s[Len(s)] \in Whitespace
    THEN rstrip(SubSeq(s, 1, Len(s) - 1)) ELSE s

strip(s) == rstrip(lstrip(s))

\* Python's `sub in s` for strings.
str_in(sub, s) ==
    \E k \in 0..(Len(s) - Len(sub)) : SubSeq(s, k + 1, k + Len(sub)) = sub

\* input(...).strip().casefold()
Normalize_nostrip(raw) == casefold(raw)
Normalize(raw) == casefold(strip(raw))

right_answer_equal(given_answer, answers) ==
    \E k \in 1..Len(answers) : casefold(answers[k]) = given_answer
right_answer(given_answer, answers) ==
    \E k \in 1..Len(answers) : str_in(casefold(answers[k]), given_answer)

ExitWords_exit_only == {<<"e","x","i","t">>}
ExitWords == {<<"q","u","i","t">>, <<"e","x","i","t">>}
HintWords == {<<"h","e","l","p">>, <<"c","l","u","e">>, <<"h","i","n","t">>}

\* The while condition of run_single_question.
LoopCond_le(a) == a <= ATTEMPTS
LoopCond_short(a) == a < ATTEMPTS - 1
LoopCond(a) == a < ATTEMPTS

\* The if chain after the attempt is counted: hint, right or wrong.
Judge_answer_first(answer, answers) ==
    IF right_answer(answer, answers) THEN "right"
    ELSE IF answer \in HintWords THEN "hint"
    ELSE "wrong"
Judge(answer, answers) ==
    IF answer \in HintWords THEN "hint"
    ELSE IF right_answer(answer, answers) THEN "right"
    ELSE "wrong"

(***************************************************************************)
(* The question file and the lines a user may type                         *)
(***************************************************************************)
Q1 == [question |-> "Capital of France?",
       answer   |-> << <<"P","a","r","i","s">> >>,
       hint     |-> "City of light"]
Q2 == [question |-> "A street, or a pronoun",
       answer   |-> << <<"S","t","r","a","ß","e">>, <<"h","e">> >>,
       hint     |-> "German, or English"]
QuestionBank == {Q1, Q2}

QuestionLists ==
    UNION {[1..n -> QuestionBank] : n \in 0..MaxQuestions}

RawInputs == {
    <<>>,
    <<" ", "\t">>,
    <<"e","x","i","t">>,
    <<" ","Q","u","i","t"," ">>,
    <<"h","e","l","p">>,
    <<"\t","H","I","N","T">>,
    <<"C","l","u","e"," ">>,
    <<" ","P","A","R","I","S">>,
    <<"i"," ","t","h","i","n","k"," ","i","t","'","s"," ",
      "p","a","r","i","s",","," ","y","e","s">>,
    <<"h","e","l","p","e","r">>,
    <<"S","T","R","A","S","S","E">>,
    <<"e","x","i","t","s">>,
    <<"r","o","m","e">>
}

\* answer = input(...).strip().casefold(), for each line a user may type.
answer_of == [raw \in RawInputs |-> Normalize(raw)]

\* The branch of the if chain each line takes, for each question.
verdict_of ==
    [q \in QuestionBank |->
        [raw \in RawInputs |-> Judge(answer_of[raw], q.answer)]]

(***************************************************************************)
(* safe_sound: the cue is requested; a PlaysoundException is swallowed     *)
(***************************************************************************)
\* The exceptions the except clause of safe_sound names.
Caught_nothing == {}
Caught == {"PlaysoundException"}

\* One call: playsound plays the file (ok) or raises PlaysoundException;
\* `raised` tells whether the exception leaves safe_sound.
Cue(f, blocking, ok) ==
    [file |-> f, blocking |-> blocking, ok |-> ok,
     raised |-> (~ok /\ "PlaysoundException" \notin Caught)]

safe_sound(f, blocking) == {Cue(f, blocking, ok) : ok \in BOOLEAN}

\* Where control is after the calls `played`: at `target`, unless an
\* exception left safe_sound, which nothing above it catches.
Then(played, target) ==
    IF \E k \in 1..Len(played) : played[k].raised THEN "crashed" ELSE target

(***************************************************************************)
(* end_game                                                                *)
(*                                                                         *)
(* The score is the quotient num / den with den = len(results).  Python    *)
(* computes it in binary floating point; for the lengths modelled the      *)
(* comparisons with 6 and 9 agree with exact arithmetic, because the       *)
(* average is exact whenever it is an integer.                             *)
(***************************************************************************)
RECURSIVE count(_, _)
count(seq, v) ==
    IF seq = <<>> THEN 0
    ELSE (IF Head(seq) = v THEN 1 ELSE 0) + count(Tail(seq), v)

\* (a sum that leaves the last entry out)
sum_but_last(seq) ==
    IF seq = <<>> THEN 0
    ELSE LET n == Len(seq) - 1
             part[k \in 0..n] == IF k = 0 THEN 0 ELSE part[k - 1] + seq[k]
         IN  part[n]

RECURSIVE sum(_)
sum(seq) == IF seq = <<>> THEN 0 ELSE Head(seq) + sum(Tail(seq))

\* avg_attempts_per_q * len(results)
avg_num_nopenalty(res) == sum(res)
avg_num_penalty5(res) == sum(res) + count(res, 0) * 5
avg_num(res) == sum(res) + count(res, 0) * 10

\* score * len(results)
score_num_swapped(res) ==
    (IF count(res, 0) # 0 THEN 11 ELSE 10) * Len(res) - avg_num(res)
score_num(res) ==
    (IF count(res, 0) # 0 THEN 10 ELSE 11) * Len(res) - avg_num(res)

\* score_color for the score num / den
score_color_strict(num, den) ==
    LET c == IF num < 6 * den THEN "red" ELSE "white"
    IN  IF num > 9 * den THEN "green" ELSE c
score_color(num, den) ==
    LET c == IF num < 6 * den THEN "red" ELSE "white"
    IN  IF num >= 9 * den THEN "green" ELSE c

end_cue_file(color) ==
    IF color = "red" THEN "notification.mp3" ELSE "happy-end.mp3"

\* (a scorer that carries the outcomes of an earlier call over)
ScoreResult_accumulating(res) ==
    LET all == IF output = <<>> THEN res ELSE res \o res
    IN  [answered |-> Len(all) - count(all, 0),
         total    |-> Len(all),
         num      |-> score_num(all),
         den      |-> Len(all),
         color    |-> score_color(score_num(all), Len(all))]

ScoreResult(res) ==
    [answered |-> Len(res) - count(res, 0),
     total    |-> Len(res),
     num      |-> score_num(res),
     den      |-> Len(res),
     color    |-> score_color(score_num(res), Len(res))]

(***************************************************************************)
(* Initial state                                                           *)
(***************************************************************************)
Locals0 ==
    /\ attempt = 0
    /\ clue_used = FALSE
    /\ line = NoLine
    /\ result = NoResult
    /\ hints = 0
    /\ wrongs = 0
    /\ empties = 0

Init ==
    /\ file_found \in BOOLEAN
    /\ questions \in QuestionLists
    /\ (~file_found => questions = <<>>)
    /\ i = 0
    /\ pc = "main"
    /\ results = <<>>
    /\ output = <<>>
    /\ shown = <<>>
    /\ cues = <<>>
    /\ Locals0

(***************************************************************************)
(* main                                                                    *)
(***************************************************************************)
shuffle(seq) ==
    {[k \in 1..Len(seq) |-> seq[p[k]]] :
        p \in {f \in [1..Len(seq) -> 1..Len(seq)] :
                 \A a, b \in 1..Len(seq) : f[a] = f[b] => a = b}}

\* read_questions_file raises SystemExit: no questions file.
ReadFail ==
    /\ pc = "main"
    /\ ~file_found
    /\ pc' = "aborted"
    /\ shown' = <<"no questions file">>
    /\ UNCHANGED <<file_found, questions, i, attempt, clue_used, line, result, results,
                   output, cues, hints, wrongs, empties>>

\* read_questions_file, random.shuffle, greet, results = []
Start ==
    /\ pc = "main"
    /\ file_found
    /\ questions' \in shuffle(questions)
    /\ shown' = <<"greet">>
    /\ \E c \in safe_sound("opening.mp3", FALSE) : cues' = <<c>>
    /\ results' = <<>>
    /\ pc' = Then(cues', "for")
    /\ UNCHANGED <<file_found, i, attempt, clue_used, line, result, output,
                   hints, wrongs, empties>>

\* The top of the while loop of run_single_question with attempt = a and
\* clue_used = used, after a step that has printed `said` and played `played`:
\* either the question is printed again and input awaited, or the loop ends
\* and the function returns 0.
LoopTop(a, used, said, played) ==
    IF LoopCond(a)
    THEN /\ cues' = played
         /\ pc' = Then(cues', "input")
         /\ shown' = said \o <<"question">>
                          \o (IF used THEN <<>> ELSE <<"clue tip">>)
         /\ result' = result
    ELSE /\ \E c \in safe_sound("power-down.mp3", TRUE) :
               cues' = played \o <<c>>
         /\ pc' = Then(cues', "return")
         /\ shown' = said \o <<"failed">>
         /\ result' = 0

\* for i, q_data in enumerate(questions_data): run_single_question(q_data, i + 1)
NextQuestion ==
    /\ pc = "for"
    /\ i < Len(questions)
    /\ i' = i + 1
    /\ attempt' = 0
    /\ clue_used' = FALSE
    /\ hints' = 0
    /\ wrongs' = 0
    /\ empties' = 0
    /\ line' = NoLine
    /\ LoopTop(0, FALSE, <<>>, <<>>)
    /\ UNCHANGED <<file_found, questions, results, output>>

\* (the outcome put in front of the list)
AppendResult_prepend ==
    /\ pc = "return"
    /\ results' = <<result>> \o results
    /\ pc' = "for"
    /\ UNCHANGED <<file_found, questions, i, attempt, clue_used, line, result, output,
                   shown, cues, hints, wrongs, empties>>

\* results.append(result)
AppendResult ==
    /\ pc = "return"
    /\ results' = Append(results, result)
    /\ pc' = "for"
    /\ UNCHANGED <<file_found, questions, i, attempt, clue_used, line, result, output,
                   shown, cues, hints, wrongs, empties>>

\* The for loop is over: end_game(results) is called.
CallEndGame ==
    /\ pc = "for"
    /\ i >= Len(questions)
    /\ pc' = "end_game"
    /\ UNCHANGED <<file_found, questions, i, attempt, clue_used, line, result, results,
                   output, shown, cues, hints, wrongs, empties>>

(***************************************************************************)
(* run_single_question: one line of input                                  *)
(***************************************************************************)
q_data == questions[i]

\* answer == '': the notice, and input() again.
InputEmpty(raw) ==
    /\ pc = "input"
    /\ answer_of[raw] = <<>>
    /\ empties < MaxEmpties
    /\ line' = raw
    /\ empties' = empties + 1
    /\ shown' = <<"nothing entered">>
    /\ cues' = <<>>
    /\ UNCHANGED <<file_found, questions, i, pc, attempt, clue_used, result, results,
                   output, hints, wrongs>>

\* answer in ('quit', 'exit'): raise SystemExit, which nothing catches.
InputExit(raw) ==
    /\ pc = "input"
    /\ answer_of[raw] # <<>>
    /\ answer_of[raw] \in ExitWords
    /\ line' = raw
    /\ pc' = "aborted"
    /\ shown' = <<"quitting">>
    /\ cues' = <<>>
    /\ UNCHANGED <<file_found, questions, i, attempt, clue_used, result, results,
                   output, hints, wrongs, empties>>

Consumes(raw) ==
    /\ pc = "input"
    /\ answer_of[raw] # <<>>
    /\ answer_of[raw] \notin ExitWords

\* (a hint that costs no attempt)
InputHint_free(raw) ==
    /\ Consumes(raw)
    /\ verdict_of[q_data][raw] = "hint"
    /\ line' = raw
    /\ attempt' = attempt
    /\ clue_used' = TRUE
    /\ hints' = hints + 1
    /\ empties' = 0
    /\ \E c \in safe_sound("beep.mp3", FALSE) :
          LoopTop(attempt, TRUE,
                  (IF clue_used THEN <<"already asked">> ELSE <<>>) \o <<"hint">>,
                  <<c>>)
    /\ UNCHANGED <<file_found, questions, i, results, output, wrongs>>

\* answer in ('help', 'clue', 'hint'): the hint, and the loop continues.
InputHint(raw) ==
    /\ Consumes(raw)
    /\ verdict_of[q_data][raw] = "hint"
    /\ line' = raw
    /\ attempt' = attempt + 1
    /\ clue_used' = TRUE
    /\ hints' = hints + 1
    /\ empties' = 0
    /\ \E c \in safe_sound("beep.mp3", FALSE) :
          LoopTop(attempt + 1, TRUE,
                  (IF clue_used THEN <<"already asked">> ELSE <<>>) \o <<"hint">>,
                  <<c>>)
    /\ UNCHANGED <<file_found, questions, i, results, output, wrongs>>

\* right_answer(answer, q_data['answer']): return attempt
InputRight(raw) ==
    /\ Consumes(raw)
    /\ verdict_of[q_data][raw] = "right"
    /\ line' = raw
    /\ attempt' = attempt + 1
    /\ empties' = 0
    /\ shown' = <<"right">>
    /\ \E c \in safe_sound("short-success.mp3", TRUE) : cues' = <<c>>
    /\ result' = attempt + 1
    /\ pc' = Then(cues', "return")
    /\ UNCHANGED <<file_found, questions, i, clue_used, results, output, hints, wrongs>>

\* (a wrong answer that costs no attempt)
InputWrong_free(raw) ==
    /\ Consumes(raw)
    /\ verdict_of[q_data][raw] = "wrong"
    /\ line' = raw
    /\ attempt' = attempt
    /\ wrongs' = wrongs
    /\ empties' = 0
    /\ \E c \in safe_sound("fail.mp3", FALSE) :
          LoopTop(attempt, clue_used, <<"wrong", "attempt n of">>, <<c>>)
    /\ UNCHANGED <<file_found, questions, i, clue_used, results, output, hints>>

\* Wrong answer: fail.mp3 while attempts remain, and the loop continues.
InputWrong(raw) ==
    /\ Consumes(raw)
    /\ verdict_of[q_data][raw] = "wrong"
    /\ line' = raw
    /\ attempt' = attempt + 1
    /\ wrongs' = wrongs + 1
    /\ empties' = 0
    /\ IF attempt + 1 < ATTEMPTS
       THEN \E c \in safe_sound("fail.mp3", FALSE) :
               LoopTop(attempt + 1, clue_used, <<"wrong", "attempt n of">>, <<c>>)
       ELSE LoopTop(attempt + 1, clue_used, <<"wrong">>, <<>>)
    /\ UNCHANGED <<file_found, questions, i, clue_used, results, output, hints>>

(***************************************************************************)
(* end_game(results)                                                       *)
(***************************************************************************)
EndGame ==
    /\ pc = "end_game"
    /\ IF Len(results) = 0
       THEN \* ZeroDivisionError at the division by len(results)
            /\ pc' = "crashed"
            /\ UNCHANGED <<output, shown, cues>>
       ELSE /\ output' = Append(output, ScoreResult(results))
            /\ shown' = <<"game over", "answered", "score">>
            /\ \E c \in safe_sound(end_cue_file(ScoreResult(results).color), TRUE) :
                  cues' = <<c>>
            /\ pc' = Then(cues', "done")
    /\ UNCHANGED <<file_found, questions, i, attempt, clue_used, line, result, results,
                   hints, wrongs, empties>>

(***************************************************************************)
(* Specifications                                                          *)
(***************************************************************************)
Next ==
    \/ ReadFail
    \/ Start
    \/ NextQuestion
    \/ \E raw \in RawInputs : InputEmpty(raw)
    \/ \E raw \in RawInputs : InputExit(raw)
    \/ \E raw \in RawInputs : InputHint(raw)
    \/ \E raw \in RawInputs : InputRight(raw)
    \/ \E raw \in RawInputs : InputWrong(raw)
    \/ AppendResult
    \/ CallEndGame
    \/ EndGame

Spec == Init /\ [][Next]_vars

\* The steps the program takes without waiting for the user.
ProgramStep ==
    \/ ReadFail
    \/ Start
    \/ NextQuestion
    \/ AppendResult
    \/ CallEndGame
    \/ EndGame

\* The user enters a line that is not empty.
NonEmptyLine ==
    \/ \E raw \in RawInputs : InputExit(raw)
    \/ \E raw \in RawInputs : InputHint(raw)
    \/ \E raw \in RawInputs : InputRight(raw)
    \/ \E raw \in RawInputs : InputWrong(raw)

\* The program keeps running, and at every prompt the user eventually
\* enters a line that is not empty.
LiveInit ==
    /\ Init
    /\ Len(questions) <= MaxLiveQuestions

LiveSpec ==
    /\ LiveInit
    /\ [][Next]_vars
    /\ WF_vars(ProgramStep)
    /\ WF_vars(NonEmptyLine)

\* The scorer on its own: end_game applied to any outcome sequence.
OutcomeSeqs ==
    UNION {[1..n -> 0..MaxOutcome] : n \in 1..MaxOutcomes}

InitScorer ==
    /\ results \in OutcomeSeqs
    /\ file_found = TRUE
    /\ questions = <<>>
    /\ i = 0
    /\ pc = "end_game"
    /\ output = <<>>
    /\ shown = <<>>
    /\ cues = <<>>
    /\ Locals0

NextScorer == EndGame

SpecScorer == InitScorer /\ [][NextScorer]_vars

\* The scorer called again on the same outcome sequence.
ScoreAgain ==
    /\ pc = "done"
    /\ Len(output) < MaxCalls
    /\ pc' = "end_game"
    /\ UNCHANGED <<file_found, questions, i, attempt, clue_used, line, result,
                   results, output, shown, cues, hints, wrongs, empties>>

NextTwice == EndGame \/ ScoreAgain

SpecTwice == InitScorer /\ [][NextTwice]_vars

TypeOK ==
    /\ pc \in {"main", "for", "input", "return", "end_game",
               "done", "aborted", "crashed"}
    /\ attempt \in 0..ATTEMPTS
    /\ clue_used \in BOOLEAN
    /\ i \in 0..MaxQuestions
    /\ Len(output) <= 1

(***************************************************************************)
(* Vocabulary of the properties                                            *)
(***************************************************************************)
\* The line as the properties speak of it: trimmed, then case-folded.
typed_of == [raw \in RawInputs |-> casefold(strip(raw))]
Typed(raw) == IF raw \in RawInputs THEN typed_of[raw] ELSE casefold(strip(raw))

\* s holds sub as a contiguous run of characters.
Contains(s, sub) ==
    \E k \in 0..Len(s) :
        /\ k + Len(sub) <= Len(s)
        /\ \A j \in 1..Len(sub) : s[k + j] = sub[j]

\* The trimmed, case-folded line holds the case-folded form of one of the
\* question's accepted answers.
accepted_of ==
    [q \in QuestionBank |->
        [raw \in RawInputs |->
            \E k \in 1..Len(q.answer) :
                Contains(typed_of[raw], casefold(q.answer[k]))]]
HoldsAnswer(q, raw) == raw \in RawInputs /\ accepted_of[q][raw]

IsBlank(raw) == \A k \in 1..Len(raw) : raw[k] = " " \/ raw[k] = "\t"
SaysExit(raw) == Typed(raw) \in {<<"q","u","i","t">>, <<"e","x","i","t">>}
SaysHint(raw) ==
    Typed(raw) \in {<<"h","e","l","p">>, <<"c","l","u","e">>, <<"h","i","n","t">>}

\* A step that reads one line at the prompt; the line read is line'.
AtPrompt == pc = "input"

Last(seq) == seq[Len(seq)]

(***************************************************************************)
(* C1: a session that returns, returns 0 or an attempt count in            *)
(* 1..ATTEMPTS: 0 only when the attempts are exhausted, otherwise the      *)
(* positive number of attempts used, and every collected outcome is in     *)
(* that range.                                                             *)
(***************************************************************************)
C1_ReturnRange ==
    /\ \A k \in 1..Len(results) : results[k] \in 0..ATTEMPTS
    /\ pc = "return" =>
          /\ result \in 0..ATTEMPTS
          /\ result = 0 => attempt = ATTEMPTS /\ Last(shown) = "failed"
          /\ result > 0 => result = attempt /\ shown = <<"right">>

C1_Witness ==
    /\ pc = "return"
    /\ result = ATTEMPTS
    /\ Len(results) = 1
    /\ results[1] = 0

(***************************************************************************)
(* C2, as claimed: whenever a session returns 0, the user has entered      *)
(* ATTEMPTS wrong (non-hint) answers in that session.                      *)
(***************************************************************************)
C2_ZeroOnlyAfterMaxWrong ==
    (pc = "return" /\ result = 0) => wrongs = ATTEMPTS

(***************************************************************************)
(* C2, amended: whenever a session returns 0, the user has entered         *)
(* ATTEMPTS attempt-consuming inputs in that session, wrong answers and    *)
(* hint requests together; a session that returns after fewer of them      *)
(* returns a positive count for a correct answer.                          *)
(***************************************************************************)
C2_ZeroOnlyAfterMaxAttempts ==
    pc = "return" =>
        /\ result = 0 => hints + wrongs = ATTEMPTS
        /\ hints + wrongs < ATTEMPTS =>
              /\ result > 0
              /\ HoldsAnswer(q_data, line)

C2_Witness ==
    /\ pc = "return"
    /\ result = 0
    /\ hints = 2
    /\ wrongs = ATTEMPTS - 2

(***************************************************************************)
(* C3, as claimed: a hint request is always followed by another prompt     *)
(* for the same question, also on the last allowed attempt.                *)
(***************************************************************************)
C3_HintAlwaysReprompts ==
    [][(AtPrompt /\ SaysHint(line')) => (pc' = "input" /\ i' = i)]_vars

(***************************************************************************)
(* C3, amended: a hint request made while attempt < ATTEMPTS - 1 is        *)
(* followed by another prompt for the same question; a hint request made   *)
(* on the last allowed attempt (attempt = ATTEMPTS - 1) uses that attempt  *)
(* up and the session returns 0.                                           *)
(***************************************************************************)
C3_HintRepromptsUnlessLast ==
    [][(AtPrompt /\ SaysHint(line')) =>
          IF attempt < ATTEMPTS - 1
          THEN /\ pc' = "input"
               /\ i' = i
               /\ Last(shown') \in {"question", "clue tip"}
          ELSE /\ pc' = "return"
               /\ result' = 0
               /\ Last(shown') = "failed"]_vars

C3_Witness ==
    /\ pc = "return"
    /\ SaysHint(line)
    /\ attempt = ATTEMPTS
    /\ result = 0

(***************************************************************************)
(* C4: every hint request raises the attempt counter by exactly one,       *)
(* whether or not the hint was shown before, and is never a success: the   *)
(* step returns no positive outcome, even when an accepted answer is a     *)
(* substring of the hint keyword.                                          *)
(***************************************************************************)
C4_HintConsumesOneAttempt ==
    [][(AtPrompt /\ SaysHint(line')) =>
          /\ attempt' = attempt + 1
          /\ clue_used'
          /\ ~(pc' = "return" /\ result' > 0)
          /\ "right" \notin {shown'[k] : k \in 1..Len(shown')}
          /\ "hint" \in {shown'[k] : k \in 1..Len(shown')}
          /\ (clue_used <=> "already asked" \in {shown'[k] : k \in 1..Len(shown')})
          /\ results' = results]_vars

C4_Witness ==
    /\ i >= 1
    /\ SaysHint(line)
    /\ hints = 2
    /\ attempt = 2
    /\ shown[1] = "already asked"
    /\ HoldsAnswer(q_data, line)

(***************************************************************************)
(* C5: an exit keyword ("quit" or "exit" in any case, with surrounding     *)
(* whitespace) at any prompt aborts the whole game at once: the session    *)
(* returns no outcome and none is recorded, nothing happens after the      *)
(* abort (no further question, no scorer), and a run never has both an     *)
(* abort and a score result: a scored run has exactly one score result     *)
(* and an aborted run has none.                                            *)
(***************************************************************************)
C5_ExitAborts ==
    /\ [][(AtPrompt /\ SaysExit(line')) =>
             /\ pc' = "aborted"
             /\ result' = result
             /\ results' = results
             /\ output' = output
             /\ i' = i]_vars
    /\ [][pc # "aborted"]_vars
    /\ [](pc = "aborted" => output = <<>>)
    /\ [](pc = "done" <=> Len(output) = 1)
    /\ [](Len(output) <= 1)

C5_Witness ==
    /\ pc = "aborted"
    /\ line = <<" ","Q","u","i","t"," ">>
    /\ i = 2
    /\ Len(results) = 1
    /\ attempt = 3
    /\ output = <<>>

(***************************************************************************)
(* C6: an empty or whitespace-only line causes a re-prompt and changes     *)
(* nothing: the attempt counter, the hint-shown flag and the position in   *)
(* the session are as before, no outcome is produced, and this holds for   *)
(* each of any number of such lines in a row.                              *)
(***************************************************************************)
C6_EmptyChangesNothing ==
    [][(AtPrompt /\ IsBlank(line')) =>
          /\ pc' = "input"
          /\ attempt' = attempt
          /\ clue_used' = clue_used
          /\ hints' = hints
          /\ wrongs' = wrongs
          /\ i' = i
          /\ result' = result
          /\ results' = results
          /\ output' = output
          /\ shown' = <<"nothing entered">>]_vars

C6_Witness ==
    /\ pc = "input"
    /\ line = <<" ", "\t">>
    /\ empties = MaxEmpties
    /\ attempt = ATTEMPTS - 1
    /\ clue_used

(***************************************************************************)
(* C7: for a line that is not empty, not an exit keyword and not a hint    *)
(* keyword, the attempt is counted and judged correct exactly when the     *)
(* trimmed, case-folded line contains the case-folded form of one of the   *)
(* question's accepted answers as a contiguous substring.                  *)
(***************************************************************************)
C7_SubstringMatch ==
    [][(AtPrompt /\ ~IsBlank(line') /\ ~SaysExit(line') /\ ~SaysHint(line')) =>
          /\ attempt' = attempt + 1
          /\ (pc' = "return" /\ result' = attempt + 1 /\ shown' = <<"right">>)
             <=> HoldsAnswer(q_data, line')
          /\ (wrongs' = wrongs + 1 /\ shown'[1] = "wrong")
             <=> ~HoldsAnswer(q_data, line')]_vars

C7_Witness ==
    /\ pc = "return"
    /\ q_data = Q1
    /\ Len(line) > Len(Q1.answer[1])
    /\ Contains(Typed(line), <<"p","a","r","i","s">>)
    /\ result = 3
    /\ shown = <<"right">>

(***************************************************************************)
(* C8: for every non-empty outcome sequence the score is 10 - A when some  *)
(* outcome is 0 and 11 - A when none is, where                             *)
(* A = (sum of outcomes + 10 * number of zero outcomes) / length;          *)
(* [3] scores 8, [0, 2] scores 4 and [1, 1, 1] scores 10.                  *)
(***************************************************************************)
RECURSIVE TotalOf(_, _)
TotalOf(seq, n) == IF n = 0 THEN 0 ELSE seq[n] + TotalOf(seq, n - 1)

ZerosOf(seq) == Cardinality({k \in 1..Len(seq) : seq[k] = 0})

C8_ScoreFormula ==
    pc = "done" =>
        LET r == output[1]
            n == Len(results)
            \* A * n
            An == TotalOf(results, n) + 10 * ZerosOf(results)
        IN  /\ n >= 1
            /\ r.den = n
            /\ ZerosOf(results) >= 1 => r.num = 10 * n - An
            /\ ZerosOf(results) = 0 => r.num = 11 * n - An
            /\ results = <<3>> => r.num = 8 * r.den
            /\ results = <<0, 2>> => r.num = 4 * r.den
            /\ results = <<1, 1, 1>> => r.num = 10 * r.den

C8_Witness ==
    /\ pc = "done"
    /\ results = <<0, 2>>
    /\ output[1].num = 8
    /\ output[1].den = 2

(***************************************************************************)
(* C9: the band depends on the score alone: green (high) exactly when      *)
(* score >= 9, red (low) exactly when score < 6, white (mid) exactly when  *)
(* 6 <= score < 9; the bands exclude each other and cover every score,     *)
(* and the failure end cue is played exactly for the red band.             *)
(***************************************************************************)
C9_Band ==
    pc = "done" =>
        LET r == output[1]
        IN  /\ r.color \in {"green", "white", "red"}
            /\ r.color = "green" <=> r.num >= 9 * r.den
            /\ r.color = "red" <=> r.num < 6 * r.den
            /\ r.color = "white" <=> (6 * r.den <= r.num /\ r.num < 9 * r.den)
            /\ Len(cues) = 1
            /\ cues[1].file = "notification.mp3" <=> r.color = "red"
            /\ cues[1].file = "happy-end.mp3" <=> r.color # "red"

C9_Witness ==
    /\ pc = "done"
    /\ output[1].num = 9 * output[1].den
    /\ output[1].color = "green"
    /\ Len(results) = 3

(***************************************************************************)
(* C10, as claimed: the scorer is only ever called with a non-empty        *)
(* outcome sequence, and its division by len(results) never fails.         *)
(***************************************************************************)
C10_ScorerGetsOutcomes ==
    /\ pc = "end_game" => Len(results) >= 1
    /\ pc # "crashed"

(***************************************************************************)
(* C11: a failed audio cue never propagates and never changes the result:  *)
(* after a step in which a playback failed, the program is where it would  *)
(* be had the cue played: the session prompts again or returns the same    *)
(* outcome, the scorer prints the same score, and the only crash is the    *)
(* one of the empty question list.                                         *)
(***************************************************************************)
CueFailed(cs) == \E k \in 1..Len(cs) : ~cs[k].ok

\* The steps that call safe_sound: the greeting, a line read at the prompt,
\* the scorer on a non-empty outcome sequence.
PlaysCues ==
    \/ pc \in {"main", "input"}
    \/ pc = "end_game" /\ results # <<>>

C12_OrderIndependent ==
    (pc = "done" /\ output # <<>>) =>
        \A p \in shuffle(results) :
            /\ ScoreResult(p).answered = output[1].answered
            /\ ScoreResult(p).num = output[1].num
            /\ ScoreResult(p).den = output[1].den
            /\ ScoreResult(p).color = output[1].color

C12_Witness ==
    /\ pc = "done"
    /\ results = <<5, 0, 2>>
    /\ Cardinality(shuffle(results)) = 6
    /\ output[1].num = 13

C14_SuccessCountsAttempts ==
    (pc = "return" /\ result > 0) =>
        /\ result = hints + wrongs + 1
        /\ (hints = 0 /\ wrongs = 0) => result = 1
        /\ (hints = 1 /\ wrongs = 0) => result = 2

C14_Witness ==
    /\ pc = "return"
    /\ result = 2
    /\ hints = 1
    /\ wrongs = 0
    /\ HoldsAnswer(q_data, line)

(***************************************************************************)
(* C15: the game loop is sequential and append-only: a question is         *)
(* presented only when every earlier one has its outcome collected, the    *)
(* outcome list changes only by appending the outcome just returned, the   *)
(* scorer is reached only with one outcome per question, in the order of   *)
(* presentation, and it prints at most one score.                          *)
(***************************************************************************)
C15_SequentialAppendOnly ==
    /\ [][i' # i =>
             /\ i' = i + 1
             /\ Len(results) = i
             /\ pc' = "input"]_vars
    /\ [][results' # results =>
             /\ pc = "return"
             /\ results' = Append(results, result)
             /\ Len(results') = i]_vars
    /\ [][output' # output =>
             /\ pc = "end_game"
             /\ output = <<>>
             /\ Len(results) = Len(questions)]_vars
    /\ [](pc \in {"end_game", "done"} =>
             /\ i = Len(questions)
             /\ Len(results) = Len(questions))
    /\ [](Len(output) <= 1)

C15_Witness ==
    /\ pc = "done"
    /\ Len(questions) = 2
    /\ results = <<0, 3>>
    /\ Len(output) = 1

(***************************************************************************)
(* C16: for outcomes produced by sessions (each in 0..ATTEMPTS) the score  *)
(* is between 0 and 10: it is 10 only when every outcome is 1 and 0 only   *)
(* when every outcome is 0.                                                *)
(***************************************************************************)
SessionOutcomes(seq) == \A k \in 1..Len(seq) : seq[k] \in 0..ATTEMPTS

C16_ScoreRange ==
    (pc = "done" /\ SessionOutcomes(results)) =>
        LET r == output[1]
        IN  /\ 0 <= r.num
            /\ r.num <= 10 * r.den
            /\ r.num = 10 * r.den => \A k \in 1..Len(results) : results[k] = 1
            /\ r.num = 0 => \A k \in 1..Len(results) : results[k] = 0

C16_Witness ==
    /\ pc = "done"
    /\ results = <<0, 0, 0>>
    /\ output[1].num = 0

(***************************************************************************)
(* C17: for outcomes produced by sessions, a game with an unanswered       *)
(* question scores below 9 and is never green (high), and a game with      *)
(* every question answered scores at least 6 and is never red (low).       *)
(***************************************************************************)
C17_BandFollowsUnanswered ==
    (pc = "done" /\ SessionOutcomes(results)) =>
        LET r == output[1]
        IN  /\ ZerosOf(results) >= 1 => (r.num < 9 * r.den /\ r.color # "green")
            /\ ZerosOf(results) = 0 => (r.num >= 6 * r.den /\ r.color # "red")

C17_Witness ==
    /\ pc = "done"
    /\ results = <<5, 5, 5>>
    /\ output[1].color = "white"

(***************************************************************************)
(* C18: the attempt counter stays within 0..ATTEMPTS, starts at 0 with     *)
(* the hint flag off for each new question, never decreases during a       *)
(* session, and is below ATTEMPTS whenever the user is prompted, so at     *)
(* most ATTEMPTS attempt-consuming inputs are read in a session.           *)
(***************************************************************************)
C18_AttemptCounter ==
    /\ [](attempt \in 0..ATTEMPTS)
    /\ [](pc = "input" => attempt + 1 <= ATTEMPTS)
    /\ [](hints + wrongs <= ATTEMPTS)
    /\ [][i' # i => (attempt' = 0 /\ ~clue_used')]_vars
    /\ [][i' = i => attempt' >= attempt]_vars
    /\ [][(AtPrompt /\ ~IsBlank(line') /\ ~SaysExit(line')) =>
             attempt' = attempt + 1]_vars

C18_Witness ==
    /\ pc = "input"
    /\ i = 2
    /\ results = <<0>>
    /\ attempt = ATTEMPTS - 1

(***************************************************************************)
(* C19: if the user does not go on entering empty lines for ever, every    *)
(* session ends (a return or an abort) and the whole game ends: with a     *)
(* score, with an abort, or, for the empty question list alone, in the     *)
(* scorer's division by zero.                                              *)
(***************************************************************************)
C19_Terminates ==
    /\ (pc = "input") ~> (pc \in {"return", "aborted"})
    /\ <>(\/ pc \in {"done", "aborted"}
          \/ pc = "crashed" /\ questions = <<>>)

C19_Witness ==
    /\ pc = "done"
    /\ Len(questions) = MaxLiveQuestions
    /\ Len(results) = Len(questions)
    /\ results[1] = 0
    /\ hints = ATTEMPTS

(***************************************************************************)
(* C20: the score is monotone in performance: in an outcome sequence of    *)
(* session outcomes, replacing a success by a success after fewer attempts *)
(* or an unanswered 0 by any success strictly increases the score.         *)
(***************************************************************************)
C20_ScoreMonotone ==
    (pc = "done" /\ SessionOutcomes(results)) =>
        \A p \in 1..Len(results) : \A v \in 1..ATTEMPTS :
            (results[p] = 0 \/ v < results[p]) =>
                score_num([results EXCEPT ![p] = v]) > output[1].num

C20_Witness ==
    /\ pc = "done"
    /\ results = <<1, 0, 1>>
    /\ output[1].num = 18
    /\ score_num(<<1, 5, 1>>) = 26
====
